---- MODULE Spec2Model ----
(***************************************************************************)
(* The OPL3 wrapper of src/main.c: one process-wide chip, one four-sample  *)
(* output buffer, and the four exported entry points opl3_reset,           *)
(* opl3_write, opl3_render and opl3_buf_ptr.  The emulator core the        *)
(* wrapper forwards to (OPL3_Reset, OPL3_WriteRegBuffered,                 *)
(* OPL3_Generate4ChResampled, declared in opl3.h) has no body under src/;  *)
(* it is modelled from the design in spec.md (one channel, one operator).  *)
(***************************************************************************)
EXTENDS Integers, FiniteSets, Sequences, TLC

VARIABLES
    chip,        \* src/main.c:9   opl3_chip chip
    sample_buf,  \* src/main.c:8   int16_t sample_buf[4]
    call,        \* the entry point called last, with its arguments
    ret,         \* what that call handed back to its caller
    clean,       \* history: a valid reset was made and no write since
    ref,         \* history: a run from a fresh process, same calls since reset
    host,        \* the host that made the last call
    solo,        \* history: per host, the machine it would have running alone
    ncalls       \* number of calls made (bounded in SpecHosts only)

vars == <<chip, sample_buf, call, ret, clean, ref, host, solo, ncalls>>

---------------------------------------------------------------------------
(* Bounds of the model *)

PhaseMod == 4    \* size of the phase accumulator
MaxAtt == 2      \* maximum attenuation (silence)
MaxCalls == 5    \* calls per behaviour of SpecHosts

(* Program constants *)

Samples == 4         \* int16_t sample_buf[4]
RegLimit == 512      \* addresses 0..0x1FF are the defined range
RegFnum == 160       \* 0xA0: frequency number
RegKeyOn == 176      \* 0xB0: key-on (bit 0x20)
RegPan == 192        \* 0xC0: output routing (bits 0x10..0x80)
KeyOnBit == 32

Mapped == {RegFnum, RegKeyOn, RegPan}
Regs == Mapped \cup {1, 688, 65535}     \* 688 = 0x2B0, 65535 = largest uint16_t
Bytes == {0, 1, 32, 255}
Rates == {0, 49716, 96000}
Hosts == {1, 2}
HostWrites == {<<RegFnum, 1>>, <<RegKeyOn, 255>>, <<RegPan, 255>>}
HostRates == {49716}

Bit(v, b) == (v \div b) % 2 = 1

ZeroFrame == [i \in 1..Samples |-> 0]

---------------------------------------------------------------------------
(* The emulator core, from spec.md sections 3 and 4 *)

\* static storage: every field zero
ZeroChip ==
    [rate |-> 0, regs |-> [a \in Mapped |-> 0], fnum |-> 0, keyon |-> FALSE,
     pan |-> 0, phase |-> 0, stage |-> "off", att |-> 0]

PowerOn(r) ==
    [rate |-> r, regs |-> [a \in Mapped |-> 0], fnum |-> 0, keyon |-> FALSE,
     pan |-> 0, phase |-> 0, stage |-> "off", att |-> MaxAtt]

OPL3_Reset(c, samplerate) ==
    IF samplerate = 0
    THEN [chip |-> c, ok |-> FALSE]
    ELSE [chip |-> PowerOn(samplerate), ok |-> TRUE]

KeyEvent(c, on) ==
    IF on = c.keyon THEN c
    ELSE IF on
         THEN [c EXCEPT !.keyon = TRUE, !.stage = "attack", !.phase = 0]
         ELSE [c EXCEPT !.keyon = FALSE,
                        !.stage = IF c.stage = "off" THEN "off" ELSE "release"]

OPL3_WriteReg(c, reg, v) ==
    IF reg \notin Mapped THEN c
    ELSE LET s == [c EXCEPT !.regs[reg] = v] IN
         CASE reg = RegFnum -> [s EXCEPT !.fnum = v]
           [] reg = RegPan -> [s EXCEPT !.pan = v \div 16]
           [] reg = RegKeyOn -> KeyEvent(s, Bit(v, KeyOnBit))

OPL3_WriteRegBuffered(c, reg, v) ==
    IF reg >= RegLimit THEN c ELSE OPL3_WriteReg(c, reg, v)

SustainLevel == MaxAtt \div 2

EnvTick(c) ==
    CASE c.stage = "attack" ->
           LET a == IF c.att > 0 THEN c.att - 1 ELSE 0 IN
           [c EXCEPT !.att = a, !.stage = IF a = 0 THEN "decay" ELSE "attack"]
      [] c.stage = "decay" ->
           LET a == IF c.att < SustainLevel THEN c.att + 1 ELSE c.att IN
           [c EXCEPT !.att = a,
                     !.stage = IF a >= SustainLevel THEN "sustain" ELSE "decay"]
      [] c.stage = "release" ->
           LET a == IF c.att < MaxAtt THEN c.att + 1 ELSE MaxAtt IN
           [c EXCEPT !.att = a,
                     !.stage = IF a = MaxAtt THEN "off" ELSE "release"]
      [] OTHER -> c

Tick(c) == EnvTick([c EXCEPT !.phase = (c.phase + c.fnum) % PhaseMod])

Wave(p) == IF p = 0 THEN 0 ELSE IF 2 * p <= PhaseMod THEN 1 ELSE -1

Output(c) == IF c.stage = "off" THEN 0 ELSE Wave(c.phase) * (MaxAtt - c.att)

Frame(c) == [i \in 1..Samples |-> IF Bit(c.pan, 2 ^ (i - 1)) THEN Output(c) ELSE 0]

OPL3_Generate4ChResampled(c, buf4) ==
    IF c.rate = 0
    THEN [chip |-> c, buf4 |-> buf4, ok |-> FALSE]
    ELSE LET t == Tick(c) IN [chip |-> t, buf4 |-> Frame(t), ok |-> TRUE]

---------------------------------------------------------------------------
(* The wrapper, src/main.c, as functions of the machine (chip, sample_buf) *)

Mach(c, b) == [chip |-> c, sample_buf |-> b]

FreshMach == Mach(ZeroChip, ZeroFrame)

\* a reset that returns early when the rate is the one already set
Reset_SkipSameRate(m, samplerate) ==
    IF m.chip.rate = samplerate THEN m
    ELSE [m EXCEPT !.chip = OPL3_Reset(m.chip, samplerate).chip]

\* a reset whose samplerate parameter is a uint16_t
Reset_Rate16(m, samplerate) ==
    [m EXCEPT !.chip = OPL3_Reset(m.chip, samplerate % 65536).chip]

\* a reset that also clears the output buffer
Reset_ClearBuf(m, samplerate) ==
    [chip |-> OPL3_Reset(m.chip, samplerate).chip, sample_buf |-> ZeroFrame]

Reset(m, samplerate) ==
    [m EXCEPT !.chip = OPL3_Reset(m.chip, samplerate).chip]

\* a write with its two arguments swapped
Write_Swapped(m, reg, data) ==
    [m EXCEPT !.chip = OPL3_WriteRegBuffered(m.chip, data, reg)]

\* a write whose register parameter is a uint8_t
Write_Reg8(m, reg, data) ==
    [m EXCEPT !.chip = OPL3_WriteRegBuffered(m.chip, reg % 256, data)]

\* a write that also generates a sample
Write_AndGenerate(m, reg, data) ==
    LET g == OPL3_Generate4ChResampled(
                 OPL3_WriteRegBuffered(m.chip, reg, data), m.sample_buf)
    IN  [m EXCEPT !.chip = g.chip]

Write(m, reg, data) ==
    [m EXCEPT !.chip = OPL3_WriteRegBuffered(m.chip, reg, data)]

\* a render that adds the frame to the buffer instead of storing it
Render_Accumulate(m) ==
    LET g == OPL3_Generate4ChResampled(m.chip, ZeroFrame)
    IN  [chip |-> g.chip,
         sample_buf |-> IF g.ok
                        THEN [i \in 1..Samples |->
                                ((m.sample_buf[i] + g.buf4[i] + 32768) % 65536) - 32768]
                        ELSE m.sample_buf]

Render(m) ==
    LET g == OPL3_Generate4ChResampled(m.chip, m.sample_buf)
    IN  [chip |-> g.chip, sample_buf |-> g.buf4]

CallOf(fn, reg, data, samplerate) ==
    [fn |-> fn, reg |-> reg, data |-> data, samplerate |-> samplerate]

opl3_reset(samplerate) ==
    LET m == Reset(Mach(chip, sample_buf), samplerate) IN
    /\ chip' = m.chip
    /\ sample_buf' = m.sample_buf
    /\ ret' = "void"
    /\ call' = CallOf("opl3_reset", 0, 0, samplerate)

opl3_write(reg, data) ==
    LET m == Write(Mach(chip, sample_buf), reg, data) IN
    /\ chip' = m.chip
    /\ sample_buf' = m.sample_buf
    /\ ret' = "void"
    /\ call' = CallOf("opl3_write", reg, data, 0)

opl3_render ==
    LET m == Render(Mach(chip, sample_buf)) IN
    /\ chip' = m.chip
    /\ sample_buf' = m.sample_buf
    /\ ret' = "void"
    /\ call' = CallOf("opl3_render", 0, 0, 0)

opl3_buf_ptr ==
    /\ ret' = "sample_buf"
    /\ call' = CallOf("opl3_buf_ptr", 0, 0, 0)
    /\ UNCHANGED <<chip, sample_buf>>

---------------------------------------------------------------------------
(* One host: the calls, with the history the properties read *)

Init ==
    /\ chip = ZeroChip
    /\ sample_buf = ZeroFrame
    /\ call = CallOf("none", 0, 0, 0)
    /\ ret = "none"
    /\ clean = FALSE
    /\ ref = [on |-> FALSE, m |-> FreshMach]
    /\ host = 1
    /\ solo = [h \in Hosts |-> FreshMach]
    /\ ncalls = 0

DoReset(samplerate) ==
    /\ opl3_reset(samplerate)
    /\ clean' = (samplerate # 0 \/ clean)
    /\ ref' = IF samplerate # 0
              THEN [on |-> TRUE, m |-> Reset(FreshMach, samplerate)]
              ELSE [ref EXCEPT !.m = IF ref.on THEN Reset(@, samplerate) ELSE @]
    /\ UNCHANGED <<host, solo, ncalls>>

DoWrite(reg, data) ==
    /\ opl3_write(reg, data)
    /\ clean' = FALSE
    /\ ref' = [ref EXCEPT !.m = IF ref.on THEN Write(@, reg, data) ELSE @]
    /\ UNCHANGED <<host, solo, ncalls>>

DoRender ==
    /\ opl3_render
    /\ ref' = [ref EXCEPT !.m = IF ref.on THEN Render(@) ELSE @]
    /\ UNCHANGED <<clean, host, solo, ncalls>>

DoBufPtr ==
    /\ opl3_buf_ptr
    /\ UNCHANGED <<clean, ref, host, solo, ncalls>>

Next ==
    \/ \E r \in Rates : DoReset(r)
    \/ \E a \in Regs, v \in Bytes : DoWrite(a, v)
    \/ DoRender
    \/ DoBufPtr

Spec == Init /\ [][Next]_vars

---------------------------------------------------------------------------
(* Two hosts, each issuing its own serialized calls to the module *)

HostStep(h) ==
    /\ ncalls < MaxCalls
    /\ ncalls' = ncalls + 1
    /\ host' = h
    /\ UNCHANGED <<clean, ref>>

HostReset(h, samplerate) ==
    /\ HostStep(h)
    /\ opl3_reset(samplerate)
    /\ solo' = [solo EXCEPT ![h] = Reset(@, samplerate)]

HostWrite(h, reg, data) ==
    /\ HostStep(h)
    /\ opl3_write(reg, data)
    /\ solo' = [solo EXCEPT ![h] = Write(@, reg, data)]

HostRender(h) ==
    /\ HostStep(h)
    /\ opl3_render
    /\ solo' = [solo EXCEPT ![h] = Render(@)]

HostBufPtr(h) ==
    /\ HostStep(h)
    /\ opl3_buf_ptr
    /\ UNCHANGED solo

NextHosts ==
    \/ \E h \in Hosts, r \in HostRates : HostReset(h, r)
    \/ \E h \in Hosts, w \in HostWrites : HostWrite(h, w[1], w[2])
    \/ \E h \in Hosts : HostRender(h)
    \/ \E h \in Hosts : HostBufPtr(h)

SpecHosts == Init /\ [][NextHosts]_vars

---------------------------------------------------------------------------
(* Properties *)

\* C1: after opl3_reset(r) with a valid rate r, whatever was called before,
\* an opl3_render made with no opl3_write since that reset leaves all four
\* samples of sample_buf at zero.
C1_ResetThenRenderIsSilent ==
    (call.fn = "opl3_render" /\ clean) => sample_buf = ZeroFrame

C1_Witness ==
    /\ call.fn = "opl3_render"
    /\ clean
    /\ chip.rate = 96000
    /\ sample_buf = ZeroFrame

\* C2: an opl3_render made while no valid sample rate is set hands an error
\* back to its caller and produces no frame; every other render hands back
\* no error.
C2_RenderBeforeResetIsAnError ==
    call.fn = "opl3_render" => (ret = "error" <=> chip.rate = 0)

\* C3: opl3_reset(0) hands an error back to its caller and leaves the chip
\* and the output buffer as it found them.
C3_InvalidResetIsAnError ==
    [][(call'.fn = "opl3_reset" /\ call'.samplerate = 0)
          => (ret' = "error" /\ chip' = chip /\ sample_buf' = sample_buf)]_vars

C6_DeterministicSinceReset ==
    ref.on =>
        /\ chip = ref.m.chip
        /\ (call.fn = "opl3_render" => sample_buf = ref.m.sample_buf)

C6_Witness ==
    /\ ref.on
    /\ call.fn = "opl3_render"
    /\ sample_buf # ZeroFrame
    /\ clean = FALSE

\* C7: for every valid rate r, reset(r) applied twice gives the state reset(r)
\* applied once gives, the power-on defaults at rate r, and the call returns
\* nothing.
C7_ResetIdempotent ==
    /\ \A r \in Rates \ {0} :
          LET m == Mach(chip, sample_buf)
          IN  /\ Reset(Reset(m, r), r) = Reset(m, r)
              /\ Reset(m, r).chip = PowerOn(r)
    /\ (call.fn = "opl3_reset" /\ call.samplerate # 0)
          => (chip = PowerOn(call.samplerate) /\ ret = "void")

C7_Witness ==
    /\ call.fn = "opl3_reset"
    /\ call.samplerate = 49716
    /\ chip = PowerOn(49716)
    /\ ref.m.chip = PowerOn(49716)
    /\ ret = "void"

C9_HostsAreIndependent ==
    call.fn \in {"opl3_render", "opl3_buf_ptr"}
        => sample_buf = solo[host].sample_buf

\* C10: sample_buf starts at zero and only a step of opl3_render changes it.
C10_OnlyRenderChangesBuffer ==
    /\ [](call.fn = "none" => sample_buf = ZeroFrame)
    /\ [][call'.fn # "opl3_render" => sample_buf' = sample_buf]_vars

C10_Witness ==
    /\ call.fn = "opl3_reset"
    /\ call.samplerate # 0
    /\ sample_buf # ZeroFrame

====
